---------------------------- MODULE Spec2Model ----------------------------
(***************************************************************************)
(* A model of lego_app.py: the LEGO palette, the two colour matchers       *)
(* (closest_lego_color, closest_lego_color_lab), the mosaic renderer       *)
(* lego_pixelate and the Streamlit script that derives the grid height and *)
(* calls the renderer.                                                     *)
(*                                                                         *)
(* Colours are triples <<r, g, b>> of integers.  An image is a record      *)
(* [width, height, px] whose px maps <<x, y>> (0-based) to a colour.       *)
(*                                                                         *)
(* Three specifications share the definitions:                             *)
(*   Spec     one call of lego_pixelate, closest_lego_color or             *)
(*            closest_lego_color_lab, its arguments drawn in Init;         *)
(*   SpecUI   one run of the Streamlit script on an uploaded image;        *)
(*   SpecSeq  a sequence of lego_pixelate calls in one process.            *)
(***************************************************************************)
EXTENDS Integers, Sequences, FiniteSets, TLC

\* Bounds of the explored inputs.
MaxSrc == 2            \* source images are at most MaxSrc x MaxSrc pixels
MaxGrid == 2           \* grid_size components explored up to MaxGrid
MaxPixel == 2          \* pixel_size explored up to MaxPixel
MaxBad == 1            \* invalid parameters explored down to -MaxBad
MaxCalls == 2          \* length of a call sequence in SpecSeq
MaxUploadWidth == 12   \* width of an uploaded image in SpecUI
MaxUploadHeight == 1   \* height of an uploaded image in SpecUI
MaxWidthExtra == 1     \* width_blocks ranges over WidthBlocksMin..+MaxWidthExtra

\* Program constants.
BrickSizeMin == 5      \* st.slider("Brick Size (px)", 5, 50, 20)
WidthBlocksMin == 10   \* st.slider("Grid Width (blocks)", 10, 100, 48)
PRECISION_BITS == 22   \* Pillow's 8-bit resampling precision: 32 - 8 - 2

LegoPalette ==
   <<
      [name |-> "Brick Yellow", rgb |-> <<236, 217, 185>>],
      [name |-> "Nougat", rgb |-> <<204, 142, 105>>],
      [name |-> "Bright Red", rgb |-> <<180, 0, 0>>],
      [name |-> "Bright Blue", rgb |-> <<0, 85, 191>>],
      [name |-> "Bright Yellow", rgb |-> <<255, 205, 0>>],
      [name |-> "Black", rgb |-> <<27, 42, 52>>],
      [name |-> "Dark Green", rgb |-> <<0, 69, 26>>],
      [name |-> "Bright Green", rgb |-> <<75, 151, 75>>],
      [name |-> "Dark Orange", rgb |-> <<160, 80, 0>>],
      [name |-> "Medium Blue", rgb |-> <<73, 138, 199>>],
      [name |-> "Bright Orange", rgb |-> <<255, 127, 0>>],
      [name |-> "Bright Bluish Green", rgb |-> <<0, 158, 143>>],
      [name |-> "Bright Yellowish-Green", rgb |-> <<193, 223, 0>>],
      [name |-> "Bright Reddish Violet", rgb |-> <<160, 0, 128>>],
      [name |-> "Sand Blue", rgb |-> <<100, 124, 162>>],
      [name |-> "Sand Yellow", rgb |-> <<170, 153, 114>>],
      [name |-> "Earth Blue", rgb |-> <<0, 32, 96>>],
      [name |-> "Earth Green", rgb |-> <<0, 50, 40>>],
      [name |-> "Sand Green", rgb |-> <<120, 144, 130>>],
      [name |-> "Dark Red", rgb |-> <<123, 0, 27>>],
      [name |-> "Flame Yellowish Orange", rgb |-> <<255, 176, 0>>],
      [name |-> "Reddish Brown", rgb |-> <<105, 64, 40>>],
      [name |-> "Medium Stone Grey", rgb |-> <<163, 162, 165>>],
      [name |-> "Dark Stone Grey", rgb |-> <<99, 95, 98>>],
      [name |-> "Light Stone Grey", rgb |-> <<229, 228, 223>>],
      [name |-> "Light Royal Blue", rgb |-> <<180, 210, 228>>],
      [name |-> "Bright Purple", rgb |-> <<123, 0, 123>>],
      [name |-> "Light Purple", rgb |-> <<220, 178, 229>>],
      [name |-> "Cool Yellow", rgb |-> <<255, 236, 108>>],
      [name |-> "Dark Purple", rgb |-> <<85, 0, 85>>],
      [name |-> "Light Nougat", rgb |-> <<255, 223, 196>>],
      [name |-> "Dark Brown", rgb |-> <<62, 32, 10>>],
      [name |-> "Medium Nougat", rgb |-> <<174, 122, 89>>],
      [name |-> "Dark Azur", rgb |-> <<32, 108, 137>>],
      [name |-> "Medium Azur", rgb |-> <<104, 195, 226>>],
      [name |-> "Aqua", rgb |-> <<175, 232, 225>>],
      [name |-> "Medium Lavender", rgb |-> <<180, 140, 200>>],
      [name |-> "Lavender", rgb |-> <<203, 153, 201>>],
      [name |-> "White Glow", rgb |-> <<247, 247, 247>>],
      [name |-> "Spring Yellowish Green", rgb |-> <<234, 255, 99>>],
      [name |-> "Olive Green", rgb |-> <<91, 110, 53>>],
      [name |-> "Medium Yellowish Green", rgb |-> <<170, 210, 60>>],
      [name |-> "Vibrant Coral", rgb |-> <<255, 115, 119>>],
      [name |-> "Vibrant Yellow", rgb |-> <<255, 239, 0>>]
   >>

LabTable ==
   <<
      [rgb |-> <<236, 217, 185>>, lab |-> <<874668, 15660, 181476>>],
      [rgb |-> <<204, 142, 105>>, lab |-> <<643268, 192570, 291003>>],
      [rgb |-> <<180, 0, 0>>, lab |-> <<373093, 616642, 517056>>],
      [rgb |-> <<0, 85, 191>>, lab |-> <<383006, 212308, -612938>>],
      [rgb |-> <<255, 205, 0>>, lab |-> <<844454, 31633, 853884>>],
      [rgb |-> <<27, 42, 52>>, lab |-> <<161893, -30570, -84598>>],
      [rgb |-> <<0, 69, 26>>, lab |-> <<247355, -306608, 203334>>],
      [rgb |-> <<75, 151, 75>>, lab |-> <<562238, -396892, 327739>>],
      [rgb |-> <<160, 80, 0>>, lab |-> <<430818, 290605, 525155>>],
      [rgb |-> <<73, 138, 199>>, lab |-> <<558017, -18338, -378067>>],
      [rgb |-> <<255, 127, 0>>, lab |-> <<668574, 433139, 739000>>],
      [rgb |-> <<0, 158, 143>>, lab |-> <<584477, -381747, -20463>>],
      [rgb |-> <<193, 223, 0>>, lab |-> <<840244, -319203, 827460>>],
      [rgb |-> <<160, 0, 128>>, lab |-> <<360492, 648594, -261717>>],
      [rgb |-> <<100, 124, 162>>, lab |-> <<515335, 11753, -231142>>],
      [rgb |-> <<170, 153, 114>>, lab |-> <<637900, 2724, 228152>>],
      [rgb |-> <<0, 32, 96>>, lab |-> <<148298, 182942, -408036>>],
      [rgb |-> <<0, 50, 40>>, lab |-> <<176186, -188407, 19106>>],
      [rgb |-> <<120, 144, 130>>, lab |-> <<576082, -114617, 45997>>],
      [rgb |-> <<123, 0, 27>>, lab |-> <<246116, 473702, 228924>>],
      [rgb |-> <<255, 176, 0>>, lab |-> <<774685, 181897, 806221>>],
      [rgb |-> <<105, 64, 40>>, lab |-> <<314024, 151872, 219940>>],
      [rgb |-> <<163, 162, 165>>, lab |-> <<667818, 9313, -14330>>],
      [rgb |-> <<99, 95, 98>>, lab |-> <<407659, 22025, -11469>>],
      [rgb |-> <<229, 228, 223>>, lab |-> <<905387, -5453, 25453>>],
      [rgb |-> <<180, 210, 228>>, lab |-> <<825915, -61228, -121997>>],
      [rgb |-> <<123, 0, 123>>, lab |-> <<284903, 572629, -354617>>],
      [rgb |-> <<220, 178, 229>>, lab |-> <<777062, 240003, -197771>>],
      [rgb |-> <<255, 236, 108>>, lab |-> <<927227, -87767, 630812>>],
      [rgb |-> <<85, 0, 85>>, lab |-> <<183100, 441600, -273474>>],
      [rgb |-> <<255, 223, 196>>, lab |-> <<907902, 69945, 172930>>],
      [rgb |-> <<62, 32, 10>>, lab |-> <<158979, 123474, 194893>>],
      [rgb |-> <<174, 122, 89>>, lab |-> <<557260, 163181, 261194>>],
      [rgb |-> <<32, 108, 137>>, lab |-> <<425173, -125271, -225347>>],
      [rgb |-> <<104, 195, 226>>, lab |-> <<744841, -186375, -237508>>],
      [rgb |-> <<175, 232, 225>>, lab |-> <<880942, -194711, -24968>>],
      [rgb |-> <<180, 140, 200>>, lab |-> <<638604, 261228, -252736>>],
      [rgb |-> <<203, 153, 201>>, lab |-> <<692533, 266820, -174023>>],
      [rgb |-> <<247, 247, 247>>, lab |-> <<972321, -4, -84>>],
      [rgb |-> <<234, 255, 99>>, lab |-> <<959609, -269164, 699685>>],
      [rgb |-> <<91, 110, 53>>, lab |-> <<437018, -171737, 292520>>],
      [rgb |-> <<170, 210, 60>>, lab |-> <<790211, -335128, 659735>>],
      [rgb |-> <<255, 115, 119>>, lab |-> <<656380, 536195, 242736>>],
      [rgb |-> <<255, 239, 0>>, lab |-> <<930122, -138611, 914765>>],
      [rgb |-> <<0, 0, 0>>, lab |-> <<0, 0, 0>>],
      [rgb |-> <<64, 0, 0>>, lab |-> <<97219, 297532, 153442>>],
      [rgb |-> <<128, 0, 0>>, lab |-> <<255344, 480439, 380559>>],
      [rgb |-> <<192, 0, 0>>, lab |-> <<399310, 646968, 542850>>],
      [rgb |-> <<255, 0, 0>>, lab |-> <<532390, 800905, 672014>>],
      [rgb |-> <<135, 0, 75>>, lab |-> <<285383, 536059, -39198>>],
      [rgb |-> <<255, 255, 255>>, lab |-> <<1000000, -5, -86>>]
   >>

DeltaTable ==
   <<
      <<0, 215884, 510783, 589747, 203141, 737178, 623326, 332572, 407615, 419265,
        277177, 353293, 238498, 606172, 403153, 174122, 814955, 720530, 284340, 644351,
        211507, 511825, 208027, 415839, 111307, 245770, 680152, 334862, 172472, 778282,
        65471, 717313, 270263, 479568, 326186, 237818, 388628, 351135, 142838, 221182,
        387303, 232615, 326227, 224804>>,
      <<215884, 0, 313282, 497579, 279190, 515454, 523322, 402093, 221702, 400694,
        139600, 416529, 387953, 461329, 355309, 146250, 576017, 540092, 309218, 408621,
        208469, 326607, 214630, 309950, 276482, 357136, 514261, 325567, 320259, 541310,
        207636, 429811, 77733, 445587, 397958, 391250, 331639, 303797, 307273, 401236,
        346053, 378740, 184961, 363179>>,
      <<510783, 313282, 0, 463658, 562125, 406215, 578372, 644789, 166544, 508667,
        330987, 626490, 697738, 335590, 431027, 399826, 448756, 505356, 469440, 151490,
        471939, 183638, 412408, 288294, 532108, 582342, 369570, 498023, 623561, 373945,
        501264, 250556, 249222, 517604, 672962, 646091, 441637, 447949, 558402, 716932,
        472600, 687386, 304103, 662884>>,
      <<589747, 497579, 463658, 0, 747862, 212672, 471135, 547897, 497500, 188136,
        597516, 412703, 800077, 307795, 151093, 519719, 194393, 365861, 385444, 407376,
        686754, 400505, 384149, 266253, 527207, 404097, 278622, 421940, 770180, 296904,
        582680, 422410, 449332, 141709, 384401, 517502, 328165, 384749, 536713, 814123,
        523452, 746908, 482221, 818134>>,
      <<203141, 279190, 562125, 747862, 0, 786402, 648184, 375240, 405629, 642553,
        271166, 442920, 181512, 789817, 533846, 237685, 908508, 747116, 368034, 713029,
        101481, 539475, 339526, 490855, 281815, 419693, 849024, 543662, 104506, 907358,
        225035, 726198, 320805, 601031, 490191, 360306, 587577, 553072, 303109, 188750,
        407517, 214268, 469503, 105665>>,
      <<737178, 515454, 406215, 212672, 786402, 0, 266107, 452298, 395958, 354680,
        588358, 417901, 785935, 289628, 301421, 480725, 119373, 164382, 376746, 339082,
        708438, 291755, 461255, 210769, 728643, 664320, 215232, 630869, 815201, 193561,
        756527, 254409, 432427, 227817, 570670, 725423, 453764, 529296, 751953, 833953,
        347098, 722161, 559145, 835233>>,
      <<623326, 523322, 578372, 471135, 648184, 266107, 0, 284133, 440754, 480695,
        620876, 334406, 604226, 692278, 413501, 419579, 422666, 124361, 318898, 550500,
        639304, 349372, 470783, 306976, 635452, 620733, 676806, 650492, 650918, 623080,
        660747, 331261, 442950, 345418, 584337, 604912, 538139, 681764, 668222, 651735,
        181297, 562229, 695317, 665732>>,
      <<332572, 402093, 644789, 547897, 375240, 452298, 284133, 0, 460906, 457898,
        509805, 182194, 277581, 785637, 401720, 230908, 582315, 365164, 168562, 663683,
        410490, 436835, 279000, 333747, 346148, 382064, 793215, 602078, 345775, 762957,
        389989, 483526, 374355, 397880, 394692, 310269, 439068, 594715, 383833, 328207,
        160429, 223076, 635798, 365975>>,
      <<407615, 221702, 166544, 497500, 405629, 395958, 440754, 460906, 0, 473402,
        233352, 487525, 509570, 447831, 406818, 274128, 500057, 428666, 363695, 263097,
        329516, 152665, 349816, 266992, 456208, 502546, 475395, 491563, 468972, 471366,
        412269, 246030, 159466, 435062, 529794, 535885, 455570, 451686, 490724, 543802,
        322638, 498037, 316360, 494984>>,
      <<419265, 400694, 508667, 188136, 642553, 354680, 480695, 457898, 473402, 0,
        499240, 276353, 651177, 447405, 90929, 415324, 363182, 411440, 268357, 508722,
        532860, 429351, 233633, 269310, 352946, 234955, 433901, 327523, 632221, 460680,
        425358, 483357, 381059, 156199, 192542, 333589, 269810, 320073, 361045, 657515,
        468576, 607425, 448875, 681772>>,
      <<277177, 139600, 330987, 597516, 271166, 588358, 620876, 509805, 233352, 499240,
        0, 515428, 444257, 564407, 452404, 240291, 668822, 617140, 386637, 471062,
        168418, 391810, 304217, 394237, 333465, 427381, 619274, 428872, 348033, 640314,
        264156, 491975, 179730, 537422, 488694, 457517, 442123, 415281, 357909, 452117,
        436648, 452152, 253309, 381032>>,
      <<353293, 416529, 626490, 412703, 442920, 417901, 334406, 182194, 487525, 276353,
        515428, 0, 377228, 536656, 269059, 283128, 503671, 361344, 144836, 651195,
        458451, 464986, 275415, 375169, 331524, 273029, 533160, 428631, 416593, 565160,
        401344, 514839, 395556, 254147, 221171, 236390, 395344, 433307, 362182, 407415,
        261584, 330129, 603446, 443903>>,
      <<238498, 387953, 697738, 800077, 181512, 785935, 604226, 277581, 509570, 651177,
        444257, 377228, 0, 903988, 591062, 262424, 960900, 722184, 335586, 809366,
        274897, 591388, 349592, 500836, 285426, 424830, 952084, 629690, 120305, 987566,
        289869, 757130, 407611, 604749, 488683, 316536, 675866, 641092, 307472, 80320,
        369713, 59883, 618411, 110809>>,
      <<606172, 461329, 335590, 307795, 789817, 289628, 692278, 785637, 447831, 447405,
        564407, 536656, 903988, 0, 343391, 534442, 288972, 366662, 378762, 246047,
        704640, 341877, 404253, 261282, 553277, 504213, 78046, 407743, 817402, 148593,
        585053, 370655, 407971, 427543, 602188, 556853, 310907, 348360, 562912, 905456,
        623759, 876891, 371435, 880992>>,
      <<403153, 355309, 431027, 151093, 533846, 301421, 413501, 401720, 406818, 90929,
        452404, 269059, 591062, 343391, 0, 336338, 302575, 362095, 235460, 424675,
        497194, 356877, 197816, 184296, 350839, 265382, 333899, 286036, 584079, 364974,
        410554, 412390, 326413, 144010, 243820, 354199, 204283, 261026, 368952, 607350,
        393177, 548800, 388941, 627080>>,
      <<174122, 146250, 399826, 519719, 237685, 480725, 419579, 230908, 274128, 415324,
        240291, 283128, 262424, 534442, 336338, 0, 591561, 465139, 183656, 469834,
        215349, 346273, 172374, 286105, 230829, 299599, 574416, 378258, 249964, 588144,
        209394, 437899, 150759, 387734, 343683, 296342, 384645, 364042, 275231, 294419,
        233090, 235208, 313474, 286653>>,
      <<814955, 576017, 448756, 194393, 908508, 119373, 422666, 582315, 500057, 363182,
        668822, 503671, 960900, 288972, 302575, 591561, 0, 304428, 467475, 348715,
        810782, 370735, 510380, 291283, 787236, 684054, 223347, 623810, 948534, 184787,
        818994, 342841, 501757, 268858, 601699, 780393, 445010, 519546, 800667, 997543,
        513683, 853306, 567946, 983338>>,
      <<720530, 540092, 505356, 365861, 747116, 164382, 124361, 365164, 428666, 411440,
        617140, 361344, 722184, 366662, 362095, 465139, 304428, 0, 345479, 465653,
        692297, 348252, 485182, 284274, 719837, 668357, 351084, 672435, 763244, 332345,
        753569, 319458, 461716, 262812, 573453, 689631, 518290, 579357, 746828, 770433,
        259868, 659852, 647497, 779123>>,
      <<284340, 309218, 469440, 385444, 368034, 376746, 318898, 168562, 363695, 268357,
        386637, 144836, 335586, 378762, 235460, 183656, 467475, 345479, 0, 498784,
        363211, 383117, 163793, 234717, 269592, 243133, 422214, 333264, 358669, 456613,
        335359, 447007, 293991, 244699, 238189, 241551, 300609, 310238, 309082, 370001,
        194837, 291934, 423707, 389992>>,
      <<644351, 408621, 151490, 407376, 713029, 339082, 550500, 663683, 263097, 508722,
        471062, 651195, 809366, 246047, 424675, 469834, 348715, 465653, 498784, 0,
        634642, 172181, 474715, 272451, 655076, 680500, 261991, 581790, 756418, 247125,
        638375, 186264, 324560, 503053, 739078, 748549, 451158, 490542, 678666, 830458,
        482851, 788567, 389776, 794904>>,
      <<211507, 208469, 471939, 686754, 101481, 708438, 639304, 410490, 329516, 532860,
        168418, 458451, 274897, 704640, 497194, 215349, 810782, 692297, 363211, 634642,
        0, 483908, 317402, 451296, 291306, 413001, 768342, 493284, 190914, 809947,
        218735, 631634, 254296, 568118, 481863, 388008, 527373, 495393, 315802, 285004,
        403640, 295019, 383208, 208119>>,
      <<511825, 326607, 183638, 400505, 539475, 291755, 349372, 436835, 152665, 429351,
        391810, 464986, 591388, 341877, 356877, 346273, 370735, 348252, 383117, 172181,
        483908, 0, 399194, 194065, 543776, 564301, 354025, 522262, 579842, 337276,
        518499, 113381, 226308, 380881, 556001, 605032, 439610, 465762, 576117, 630127,
        288158, 567278, 385994, 605522>>,
      <<208027, 214630, 412408, 384149, 339526, 461255, 470783, 279000, 349816, 233633,
        304217, 275415, 349592, 404253, 197816, 172374, 510380, 485182, 163793, 474715,
        317402, 399194, 0, 251615, 172510, 164928, 457001, 209763, 338947, 501516,
        223691, 487127, 222258, 300236, 234346, 246802, 205372, 200312, 207257, 367495,
        319922, 322353, 258884, 373557>>,
      <<415839, 309950, 288294, 266253, 490855, 210769, 306976, 333747, 266992, 269310,
        394237, 375169, 500836, 261282, 184296, 286105, 291283, 284274, 234717, 272451,
        451296, 194065, 251615, 0, 409573, 385933, 273115, 375762, 512136, 287066,
        431352, 248600, 243360, 224361, 408405, 455338, 299943, 328783, 443225, 541087,
        251943, 466514, 347503, 538168>>,
      <<111307, 276482, 532108, 527207, 281815, 728643, 635452, 346148, 456208, 352946,
        333465, 331524, 285426, 553277, 350839, 230829, 787236, 719837, 269592, 655076,
        291306, 543776, 172510, 409573, 0, 142942, 630045, 256093, 245690, 746216,
        127701, 743783, 322118, 434264, 239772, 174381, 317383, 286825, 47707, 266209,
        418126, 274223, 323379, 286814>>,
      <<245770, 357136, 582342, 404097, 419693, 664320, 620733, 382064, 502546, 234955,
        427381, 273029, 424830, 504213, 265382, 299599, 684054, 668357, 243133, 680500,
        413001, 564301, 164928, 385933, 142942, 0, 557348, 229175, 394587, 681107,
        259519, 728693, 382122, 347156, 111924, 142156, 242667, 263724, 145965, 414511,
        441646, 401433, 416871, 435577>>,
      <<680152, 514261, 369570, 278622, 849024, 215232, 676806, 793215, 475395, 433901,
        619274, 533160, 952084, 78046, 333899, 574416, 223347, 351084, 422214, 261991,
        768342, 354025, 457001, 273115, 630045, 557348, 0, 493556, 876469, 84188,
        663663, 362379, 449485, 376084, 614378, 627893, 357737, 420579, 639947, 957350,
        633059, 923425, 445399, 935108>>,
      <<334862, 325567, 498023, 421940, 543662, 630869, 650492, 602078, 491563, 327523,
        428872, 428631, 629690, 407743, 286036, 378258, 623810, 672435, 333264, 581790,
        493284, 522262, 209763, 375762, 256093, 229175, 493556, 0, 544088, 592112,
        297467, 660286, 349296, 435305, 354598, 326971, 109769, 66916, 242107, 612043,
        565904, 612816, 265112, 602399>>,
      <<172472, 320259, 623561, 770180, 104506, 815201, 650918, 345775, 468972, 632221,
        348033, 416593, 120305, 817402, 584079, 249964, 948534, 763244, 358669, 756418,
        190914, 579842, 338947, 512136, 245690, 394587, 876469, 544088, 0, 937450,
        205913, 772415, 362722, 606943, 468161, 308902, 598327, 559514, 263376, 93049,
        413581, 152844, 506562, 64092>>,
      <<778282, 541310, 373945, 296904, 907358, 193561, 623080, 762957, 471366, 460680,
        640314, 565160, 987566, 148593, 364974, 588144, 184787, 332345, 456613, 247125,
        809947, 337276, 501516, 287066, 746216, 681107, 84188, 592112, 937450, 0,
        769434, 321084, 468260, 394378, 675417, 751504, 413640, 478701, 758146, 1003469,
        604483, 942767, 492724, 985406>>,
      <<65471, 207636, 501264, 582680, 225035, 756527, 660747, 389989, 412269, 425358,
        264156, 401344, 289869, 585053, 410554, 209394, 818994, 753569, 335359, 638375,
        218735, 518499, 223691, 431352, 127701, 259519, 663663, 297467, 205913, 769434,
        0, 728548, 270793, 498429, 343366, 285918, 361881, 317932, 144157, 266168,
        430705, 289927, 291279, 257810>>,
      <<717313, 429811, 250556, 422410, 726198, 254409, 331261, 483526, 246030, 483357,
        491975, 514839, 757130, 370655, 412390, 437899, 342841, 319458, 447007, 186264,
        631634, 113381, 487127, 248600, 743783, 728693, 362379, 660286, 772415, 321084,
        728548, 0, 332962, 408138, 656965, 784313, 514843, 555213, 770337, 808262,
        331252, 700424, 483123, 791159>>,
      <<270263, 77733, 249222, 449332, 320805, 432427, 442950, 374355, 159466, 381059,
        179730, 395556, 407611, 407971, 326413, 150759, 501757, 461716, 293991, 324560,
        254296, 226308, 222258, 243360, 322118, 382122, 449485, 349296, 362722, 468260,
        270793, 332962, 0, 400273, 406838, 419380, 331906, 315584, 356488, 432985,
        293107, 391115, 210344, 400290>>,
      <<479568, 445587, 517604, 141709, 601031, 227817, 345418, 397880, 435062, 156199,
        537422, 254147, 604749, 427543, 144010, 387734, 268858, 262812, 244699, 503053,
        568118, 380881, 300236, 224361, 434264, 347156, 376084, 435305, 606943, 394378,
        498429, 408138, 400273, 0, 289498, 401214, 349962, 416378, 458711, 631334,
        358069, 565208, 546047, 640901>>,
      <<326186, 397958, 672962, 384401, 490191, 570670, 584337, 394692, 529794, 192542,
        488694, 221171, 488683, 602188, 243820, 343683, 601699, 573453, 238189, 739078,
        481863, 556001, 234346, 408405, 239772, 111924, 614378, 354598, 468161, 675417,
        343366, 656965, 406838, 289498, 0, 164871, 340106, 385309, 246986, 485965,
        447559, 459289, 569976, 508146>>,
      <<237818, 391250, 646091, 517502, 360306, 725423, 604912, 310269, 535885, 333589,
        457517, 236390, 316536, 556853, 354199, 296342, 780393, 689631, 241551, 748549,
        388008, 605032, 246802, 455338, 174381, 142156, 627893, 326971, 308902, 751504,
        285918, 784313, 419380, 401214, 164871, 0, 354160, 356450, 183978, 301775,
        409943, 291339, 506190, 345496>>,
      <<388628, 331639, 441637, 328165, 587577, 453764, 538139, 439068, 455570, 269810,
        442123, 395344, 675866, 310907, 204283, 384645, 445010, 518290, 300609, 451158,
        527373, 439610, 205372, 299943, 317383, 242667, 357737, 109769, 598327, 413640,
        361881, 514843, 331906, 349962, 340106, 354160, 0, 63331, 316496, 669027,
        543492, 654142, 267159, 655421>>,
      <<351135, 303797, 447949, 384749, 553072, 529296, 681764, 594715, 451686, 320073,
        415281, 433307, 641092, 348360, 261026, 364042, 519546, 579357, 310238, 490542,
        495393, 465762, 200312, 328783, 286825, 263724, 420579, 66916, 559514, 478701,
        317932, 555213, 315584, 416378, 385309, 356450, 63331, 0, 283454, 630126,
        539442, 621074, 233830, 618355>>,
      <<142838, 307273, 558402, 536713, 303109, 751953, 668222, 383833, 490724, 361045,
        357909, 362182, 307472, 562912, 368952, 275231, 800667, 746828, 309082, 678666,
        315802, 576117, 207257, 443225, 47707, 145965, 639947, 242107, 263376, 758146,
        144157, 770337, 356488, 458711, 246986, 183978, 316496, 283454, 0, 279447,
        459454, 301402, 336748, 301427>>,
      <<221182, 401236, 716932, 814123, 188750, 833953, 651735, 328207, 543802, 657515,
        452117, 407415, 80320, 905456, 607350, 294419, 997543, 770433, 370001, 830458,
        285004, 630127, 367495, 541087, 266209, 414511, 957350, 612043, 93049, 1003469,
        266168, 808262, 432985, 631334, 485965, 301775, 669027, 630126, 279447, 0,
        424589, 114777, 610100, 99052>>,
      <<387303, 346053, 472600, 523452, 407517, 347098, 181297, 160429, 322638, 468576,
        436648, 261584, 369713, 623759, 393177, 233090, 513683, 259868, 194837, 482851,
        403640, 288158, 319922, 251943, 418126, 441646, 633059, 565904, 413581, 604483,
        430705, 331252, 293107, 358069, 447559, 409943, 543492, 539442, 459454, 424589,
        0, 326908, 524181, 433514>>,
      <<232615, 378740, 687386, 746908, 214268, 722161, 562229, 223076, 498037, 607425,
        452152, 330129, 59883, 876891, 548800, 235208, 853306, 659852, 291934, 788567,
        295019, 567278, 322353, 466514, 274223, 401433, 923425, 612816, 152844, 942767,
        289927, 700424, 391115, 565208, 459289, 291339, 654142, 621074, 301402, 114777,
        326908, 0, 612173, 161919>>,
      <<326227, 184961, 304103, 482221, 469503, 559145, 695317, 635798, 316360, 448875,
        253309, 603446, 618411, 371435, 388941, 313474, 567946, 647497, 423707, 389776,
        383208, 385994, 258884, 347503, 323379, 416871, 445399, 265112, 506562, 492724,
        291279, 483123, 210344, 546047, 569976, 506190, 267159, 233830, 336748, 610100,
        524181, 612173, 0, 565256>>,
      <<224804, 363179, 662884, 818134, 105665, 835233, 665732, 365975, 494984, 681772,
        381032, 443903, 110809, 880992, 627080, 286653, 983338, 779123, 389992, 794904,
        208119, 605522, 373557, 538168, 286814, 435577, 935108, 602399, 64092, 985406,
        257810, 791159, 400290, 640901, 508146, 345496, 655421, 618355, 301427, 99052,
        433514, 161919, 565256, 0>>,
      <<822772, 551560, 383524, 372547, 820738, 127201, 275675, 491823, 397236, 468206,
        613534, 506388, 816321, 366980, 409056, 526843, 244688, 203557, 457342, 296328,
        729260, 276896, 538656, 285088, 861359, 748640, 327777, 704126, 933817, 273837,
        876093, 192982, 463525, 345882, 661052, 840719, 551070, 605945, 966390, 988064,
        369597, 744175, 585698, 949753>>,
      <<803613, 478578, 247975, 414581, 820409, 307155, 478966, 632044, 315570, 527619,
        543285, 635082, 876954, 297216, 450861, 515954, 309903, 419059, 536604, 119674,
        703005, 190475, 535620, 305138, 840798, 785450, 284113, 665278, 910417, 235347,
        826930, 131788, 389904, 490461, 758302, 884576, 511533, 555294, 876204, 964538,
        462329, 815405, 483713, 937973>>,
      <<625248, 389073, 103939, 446468, 668539, 353569, 530144, 637565, 206923, 521998,
        431275, 631412, 769960, 316836, 442449, 450043, 394591, 455148, 488311, 78758,
        590685, 149689, 477702, 285411, 645474, 676415, 333601, 599024, 719402, 317760,
        621609, 172931, 303378, 504144, 730710, 732673, 483223, 516909, 671467, 794595,
        457977, 753069, 392713, 752785>>,
      <<490239, 292578, 24150, 468055, 544576, 419588, 590510, 647067, 165463, 505518,
        305360, 625355, 687348, 340973, 428983, 386638, 461358, 518124, 465733, 171272,
        451279, 197237, 395163, 291813, 511199, 566108, 378427, 479389, 607459, 387019,
        478895, 270180, 238604, 521591, 663115, 631358, 428980, 430859, 536925, 704477,
        477937, 678270, 278921, 648202>>,
      <<410243, 220700, 158511, 506053, 481334, 501317, 660689, 665012, 211729, 500032,
        208527, 627044, 655789, 391770, 433066, 347629, 538588, 593533, 459404, 289548,
        377199, 292417, 339124, 335791, 427129, 506730, 442918, 412360, 547589, 469340,
        387882, 382325, 212502, 553695, 633953, 576635, 389200, 375562, 447256, 660169,
        518338, 653783, 183056, 594833>>,
      <<636889, 448875, 265605, 343607, 769688, 311344, 620610, 729092, 379053, 483325,
        542734, 624049, 868179, 109389, 385218, 512658, 289876, 512315, 513754, 147816,
        691642, 266218, 450033, 256539, 616124, 615184, 129752, 502459, 801511, 138879,
        624073, 282460, 376504, 484376, 704418, 655571, 379039, 426206, 633736, 879702,
        557133, 843233, 389193, 853582>>,
      <<150244, 318861, 570225, 548816, 307684, 761700, 679394, 395577, 502961, 373637,
        367108, 373906, 312124, 574836, 382590, 288327, 809721, 756747, 323047, 689674,
        322512, 588443, 222803, 457273, 61870, 156482, 651344, 250681, 265500, 767951,
        149278, 779833, 369261, 471907, 256792, 189447, 327910, 294041, 16035, 280339,
        472359, 307878, 346914, 303192>>
   >>

(***************************************************************************)
(* Images.                                                                 *)
(***************************************************************************)
\* TRUE.  TLC passes an operator's arguments unevaluated; a loop below reads
\* its state through Computed before it runs an iteration, so that the state
\* is computed when the iteration starts, as it is in Python.
Computed(n) == n >= 0

Pixels(w, h) == (0 .. w - 1) \X (0 .. h - 1)

\* Image.new("RGB", size): a black image of that size.
Image_new(w, h) ==
   [width |-> w, height |-> h, px |-> [p \in Pixels(w, h) |-> <<0, 0, 0>>]]

getpixel(im, xy) == im.px[xy]

putpixel(im, xy, color) == [im EXCEPT !.px[xy] = color]

NoImage == [width |-> 0, height |-> 0, px |-> <<>>]

(***************************************************************************)
(* img.resize(grid_size, resample=Image.BILINEAR), as Pillow computes it   *)
(* for 8-bit channels: a triangle filter whose support is widened by the   *)
(* scale factor when shrinking, coefficients normalised and rounded to     *)
(* PRECISION_BITS fixed point, a horizontal pass followed by a vertical    *)
(* pass, each rounding to 8 bits.                                          *)
(***************************************************************************)
Abs(n) == IF n < 0 THEN -n ELSE n

RECURSIVE Pow2(_)
Pow2(n) == IF n = 0 THEN 1 ELSE 2 * Pow2(n - 1)

\* 1 << PRECISION_BITS and the rounding term 1 << (PRECISION_BITS - 1).
FixedOne == Pow2(PRECISION_BITS)

FixedHalf == Pow2(PRECISION_BITS - 1)

\* 2 * max(inSize, outSize) times the triangle filter's weight of input
\* sample x for output sample xx.
FilterWeight(inSize, outSize, xx, x) ==
   LET D == IF inSize > outSize THEN inSize ELSE outSize
       w == 2 * D - Abs((2 * x + 1) * outSize - (2 * xx + 1) * inSize)
   IN  IF w > 0 THEN w ELSE 0

RECURSIVE WeightSum(_, _, _, _)
WeightSum(inSize, outSize, xx, n) ==
   IF n = 0 THEN 0
   ELSE WeightSum(inSize, outSize, xx, n - 1)
           + FilterWeight(inSize, outSize, xx, n - 1)

\* The fixed-point coefficient (int)(0.5 + k * (1 << PRECISION_BITS)) of
\* the normalised weight k.
Coeff(inSize, outSize, xx, x) ==
   LET ww == WeightSum(inSize, outSize, xx, inSize)
   IN  (2 * FilterWeight(inSize, outSize, xx, x) * FixedOne + ww)
          \div (2 * ww)

clip8(v) == IF v < 0 THEN 0 ELSE IF v > 255 THEN 255 ELSE v

RECURSIVE Accumulate(_, _, _, _, _)
\* ss0 after adding the first n samples; line[x] is the x-th input value.
Accumulate(line, inSize, outSize, xx, n) ==
   IF n = 0 THEN FixedHalf
   ELSE Accumulate(line, inSize, outSize, xx, n - 1)
           + line[n - 1] * Coeff(inSize, outSize, xx, n - 1)

Resample1D(line, inSize, outSize, xx) ==
   clip8(Accumulate(line, inSize, outSize, xx, inSize) \div FixedOne)

\* One output sample of one channel c of a row (horizontal pass) or of a
\* column (vertical pass) of im.
RowSample(im, y, c, outW, xx) ==
   Resample1D([x \in 0 .. im.width - 1 |-> im.px[<<x, y>>][c]], im.width, outW, xx)

ColumnSample(im, x, c, outH, yy) ==
   Resample1D([y \in 0 .. im.height - 1 |-> im.px[<<x, y>>][c]], im.height, outH,
              yy)

ResampleHorizontal(im, outW) ==
   [width |-> outW, height |-> im.height,
    px |-> [p \in Pixels(outW, im.height) |->
              <<RowSample(im, p[2], 1, outW, p[1]),
                RowSample(im, p[2], 2, outW, p[1]),
                RowSample(im, p[2], 3, outW, p[1])>>]]

ResampleVertical(im, outH) ==
   [width |-> im.width, height |-> outH,
    px |-> [p \in Pixels(im.width, outH) |->
              <<ColumnSample(im, p[1], 1, outH, p[2]),
                ColumnSample(im, p[1], 2, outH, p[2]),
                ColumnSample(im, p[1], 3, outH, p[2])>>]]

resize(im, size) == ResampleVertical(ResampleHorizontal(im, size[1]), size[2])

\* A key that compares the first channel only.
distanceFirstChannel(c1, c2) == (c1[1] - c2[1]) * (c1[1] - c2[1])

\* A scan in which an entry of equal key also replaces the best.
KeyLessOrEqual(k, best) == k <= best

(***************************************************************************)
(* closest_lego_color: min(LEGO_COLORS, key=distance), i.e. a scan that    *)
(* keeps the first entry of least key.                                     *)
(***************************************************************************)
distance(c1, c2) ==
   (c1[1] - c2[1]) * (c1[1] - c2[1]) + (c1[2] - c2[2]) * (c1[2] - c2[2])
      + (c1[3] - c2[3]) * (c1[3] - c2[3])

\* Python's min: a later entry replaces the best only when its key is
\* strictly smaller.
KeyLess(k, best) == k < best

RECURSIVE MinScan(_, _, _, _)
\* Index of the entry min() returns among entries lo .. hi: the scan of
\* lo .. hi is the scan of its first half continued over its second half,
\* where an entry replaces the best so far only under KeyLess.
MinScan(palette, pixel_rgb, lo, hi) ==
   IF lo = hi THEN lo
   ELSE LET mid == (lo + hi) \div 2
            best == MinScan(palette, pixel_rgb, lo, mid)
            next == MinScan(palette, pixel_rgb, mid + 1, hi)
        IN  IF KeyLess(distance(pixel_rgb, palette[next].rgb),
                       distance(pixel_rgb, palette[best].rgb))
               THEN next ELSE best

closest_lego_color(palette, pixel_rgb) ==
   palette[MinScan(palette, pixel_rgb, 1, Len(palette))].rgb

(***************************************************************************)
(* closest_lego_color_lab: a scan from closest = LEGO_COLORS[0] and        *)
(* min_dist = inf that replaces both when delta < min_dist.                *)
(***************************************************************************)
LabIndex(rgb) == CHOOSE i \in 1 .. Len(LabTable) : LabTable[i].rgb = rgb

LabDomain == {LabTable[i].rgb : i \in 1 .. Len(LabTable)}

rgb_to_lab(rgb) == LabTable[LabIndex(rgb)].lab

LabRow(lab) == CHOOSE i \in 1 .. Len(LabTable) : LabTable[i].lab = lab

delta_e_cie2000(lab1, lab2) == DeltaTable[LabRow(lab1)][LabRow(lab2)]

\* float('inf') and the finite distances.
Infinity == [inf |-> TRUE, v |-> 0]

Finite(d) == [inf |-> FALSE, v |-> d]

\* A loop that starts from min_dist = 0.
InitialZero == Finite(0)

InitialMinDist == Infinity

DeltaLess(delta, min_dist) == min_dist.inf \/ delta < min_dist.v

\* One iteration of the loop, on entry n, from loop state s.
LabStep(palette, target, s, n) ==
   LET delta == delta_e_cie2000(target, rgb_to_lab(palette[n].rgb))
   IN  IF DeltaLess(delta, s.min_dist)
          THEN [closest |-> n, min_dist |-> Finite(delta)]
          ELSE s

RECURSIVE LabScan(_, _, _, _, _)
\* The loop state [closest, min_dist] after iterations lo .. hi from state
\* s (the iterations are split in two halves, run one after the other).
LabScan(palette, target, s, lo, hi) ==
   IF ~Computed(s.closest) \/ lo > hi THEN s
   ELSE IF lo = hi THEN LabStep(palette, target, s, lo)
   ELSE LET mid == (lo + hi) \div 2
        IN  LabScan(palette, target, LabScan(palette, target, s, lo, mid),
                    mid + 1, hi)

\* closest = LEGO_COLORS[0]; min_dist = float('inf')
LabInitial == [closest |-> 1, min_dist |-> InitialMinDist]

closest_lego_color_lab(palette, pixel_rgb) ==
   palette[LabScan(palette, rgb_to_lab(pixel_rgb), LabInitial, 1,
                   Len(palette)).closest].rgb

(***************************************************************************)
(* lego_pixelate.                                                          *)
(***************************************************************************)
\* A loop body that matches whatever use_lego_palette says.
MatcherAlwaysFast(use_lego_palette, high_accuracy) == "fast"

\* The matcher the loop body runs for one cell.
MatcherFor(use_lego_palette, high_accuracy) ==
   IF use_lego_palette
      THEN IF high_accuracy THEN "lab" ELSE "fast"
      ELSE "none"

\* A loop body that never replaces orig_color.
CellColorUnmatched(palette, orig_color, use_lego_palette, high_accuracy) ==
   orig_color

\* color, from orig_color = small.getpixel((x, y)).
CellColor(palette, orig_color, use_lego_palette, high_accuracy) ==
   LET m == MatcherFor(use_lego_palette, high_accuracy)
   IN  IF m = "lab" THEN closest_lego_color_lab(palette, orig_color)
       ELSE IF m = "fast" THEN closest_lego_color(palette, orig_color)
       ELSE orig_color

\* An innermost loop that forgets the block's stride.
BlockPixelNoStride(x, y, dx, dy, pixel_size) == <<x + dx, y + dy>>

\* The pixel the innermost loop writes.
BlockPixel(x, y, dx, dy, pixel_size) ==
   <<x * pixel_size + dx, y * pixel_size + dy>>

\* Number of iterations of "for dy in range(p): for dx in range(p)".
BlockIterations(pixel_size) ==
   IF pixel_size > 0 THEN pixel_size * pixel_size ELSE 0

RECURSIVE FillBlock(_, _, _, _, _, _, _)
\* result after iterations lo .. hi - 1 of the two inner loops; iteration j
\* (0-based) has dy = j \div pixel_size and dx = j % pixel_size.
FillBlock(result, x, y, color, pixel_size, lo, hi) ==
   IF ~Computed(result.width) \/ hi <= lo THEN result
   ELSE IF hi = lo + 1
      THEN putpixel(result,
                    BlockPixel(x, y, lo % pixel_size, lo \div pixel_size,
                               pixel_size),
                    color)
   ELSE LET mid == (lo + hi) \div 2
        IN  FillBlock(FillBlock(result, x, y, color, pixel_size, lo, mid),
                      x, y, color, pixel_size, mid, hi)

\* One iteration of the two outer loops, on cell k (0-based):
\* y = k \div grid_size[0], x = k % grid_size[0].  fast_calls and lab_calls
\* count the matcher invocations.
PixelateCell(palette, small, acc, pixel_size, grid_size, use_lego_palette, high_accuracy, k) ==
   LET x == k % grid_size[1]
       y == k \div grid_size[1]
       orig_color == getpixel(small, <<x, y>>)
       color == CellColor(palette, orig_color, use_lego_palette, high_accuracy)
       m == MatcherFor(use_lego_palette, high_accuracy)
   IN  [image |-> FillBlock(acc.image, x, y, color, pixel_size, 0,
                            BlockIterations(pixel_size)),
        fast_calls |-> acc.fast_calls + (IF m = "fast" THEN 1 ELSE 0),
        lab_calls |-> acc.lab_calls + (IF m = "lab" THEN 1 ELSE 0)]

RECURSIVE PixelateCells(_, _, _, _, _, _, _, _, _)
\* The loop state after iterations lo .. hi - 1 of the two outer loops.
PixelateCells(palette, small, acc, pixel_size, grid_size, use_lego_palette, high_accuracy, lo, hi) ==
   IF ~Computed(acc.fast_calls) \/ hi <= lo THEN acc
   ELSE IF hi = lo + 1
      THEN PixelateCell(palette, small, acc, pixel_size, grid_size,
                        use_lego_palette, high_accuracy, lo)
   ELSE LET mid == (lo + hi) \div 2
        IN  PixelateCells(palette, small,
                          PixelateCells(palette, small, acc, pixel_size,
                                        grid_size, use_lego_palette,
                                        high_accuracy, lo, mid),
                          pixel_size, grid_size, use_lego_palette,
                          high_accuracy, mid, hi)

\* A result sized by the grid width in both directions.
ResultSizeSquare(grid_size, pixel_size) ==
   <<grid_size[1] * pixel_size, grid_size[1] * pixel_size>>

\* The size handed to Image.new.
ResultSize(grid_size, pixel_size) ==
   <<grid_size[1] * pixel_size, grid_size[2] * pixel_size>>

Raised(error, small) ==
   [status |-> error, small |-> small, image |-> NoImage,
    fast_calls |-> 0, lab_calls |-> 0]

NoRet == Raised("none", NoImage)

\* The call's outcome: Pillow's resize raises ValueError for a size below
\* 1, Image.new raises ValueError for a negative size, and the function
\* itself checks nothing.
lego_pixelate(palette, im, pixel_size, grid_size, use_lego_palette, high_accuracy) ==
   IF grid_size[1] < 1 \/ grid_size[2] < 1
      THEN Raised("ValueError", NoImage)
      ELSE LET small == resize(im, grid_size)
               size == ResultSize(grid_size, pixel_size)
           IN  IF size[1] < 0 \/ size[2] < 0
                  THEN Raised("ValueError", small)
                  ELSE LET acc == PixelateCells(palette, small,
                                     [image |-> Image_new(size[1], size[2]),
                                      fast_calls |-> 0, lab_calls |-> 0],
                                     pixel_size, grid_size, use_lego_palette,
                                     high_accuracy, 0,
                                     grid_size[1] * grid_size[2])
                       IN  [status |-> "returned", small |-> small,
                            image |-> acc.image, fast_calls |-> acc.fast_calls,
                            lab_calls |-> acc.lab_calls]

\* A call that consumes the entry at the head of the palette.
PaletteConsumed(palette) == Tail(palette)

\* LEGO_COLORS after a call: no statement of the module assigns to it or
\* mutates it.
PaletteAfterCall(palette) == palette

\* height_blocks = int(width_blocks * (original.height / original.width)):
\* truncation of the quotient.  For the widths, heights and width_blocks
\* explored the double-precision product truncates to the exact floor.
HeightBlocks(width_blocks, height, width) == (width_blocks * height) \div width

(***************************************************************************)
(* State.                                                                  *)
(***************************************************************************)
VARIABLES
   LEGO_COLORS,        \* the module-level palette list
   pc,                 \* what the process is about to do, or "done"
   pixel_rgb,          \* argument of a matcher call
   matched,            \* [by, rgb]: the matcher called and what it returned
   img,                \* arguments of a lego_pixelate call
   pixel_size,
   grid_size,
   use_lego_palette,
   high_accuracy,
   ret,                \* outcome of the lego_pixelate call
   original,           \* the uploaded image, converted to RGB
   width_blocks,       \* the "Grid Width (blocks)" slider
   height_blocks,      \* computed by the script
   memo,               \* an earlier call of the sequence and its outcome
   calls               \* number of calls made in the sequence

vars ==
   <<LEGO_COLORS, pc, pixel_rgb, matched, img, pixel_size, grid_size,
     use_lego_palette, high_accuracy, ret, original, width_blocks,
     height_blocks, memo, calls>>

(***************************************************************************)
(* Inputs.                                                                 *)
(***************************************************************************)
Red == <<255, 0, 0>>

Black == <<0, 0, 0>>

SrcColors == {Red, Black}

Solid(w, h, color) ==
   [width |-> w, height |-> h, px |-> [p \in Pixels(w, h) |-> color]]

\* Whether pixel p of a source image of the given kind is Red (else Black).
Lit(kind, p) ==
   CASE kind = "red" -> TRUE
     [] kind = "black" -> FALSE
     [] kind = "columns" -> p[1] % 2 = 0
     [] kind = "rows" -> p[2] % 2 = 0
     [] kind = "checker" -> (p[1] + p[2]) % 2 = 0
     [] kind = "corner" -> p = <<0, 0>>

ImageKinds == {"red", "black", "columns", "rows", "checker", "corner"}

Pattern(w, h, kind) ==
   [width |-> w, height |-> h,
    px |-> [p \in Pixels(w, h) |-> IF Lit(kind, p) THEN Red ELSE Black]]

\* The source images: every kind in every size up to MaxSrc x MaxSrc.
Images ==
   {Pattern(w, h, kind) : w \in 1 .. MaxSrc, h \in 1 .. MaxSrc,
                          kind \in ImageKinds}

Args(im, p, g, u, a) ==
   [img |-> im, pixel_size |-> p, grid_size |-> g, use_lego_palette |-> u,
    high_accuracy |-> a]

\* The Lab matcher is explored on the colours LabTable holds.
Covered(a) ==
   \/ ~(a.use_lego_palette /\ a.high_accuracy)
   \/ LET small == resize(a.img, a.grid_size)
      IN  \A p \in DOMAIN small.px : small.px[p] \in LabDomain

ValidCalls ==
   {a \in [img : Images, pixel_size : 1 .. MaxPixel,
           grid_size : (1 .. MaxGrid) \X (1 .. MaxGrid),
           use_lego_palette : BOOLEAN, high_accuracy : BOOLEAN] : Covered(a)}

\* Calls with a grid dimension or a brick size that is zero or negative.
InvalidCalls ==
   {a \in [img : {Solid(1, 1, Red)}, pixel_size : -MaxBad .. MaxPixel,
           grid_size : (-MaxBad .. MaxGrid) \X (-MaxBad .. MaxGrid),
           use_lego_palette : BOOLEAN, high_accuracy : BOOLEAN] :
      a.pixel_size <= 0 \/ a.grid_size[1] <= 0 \/ a.grid_size[2] <= 0}

\* The solid pure-red scenario: grid (1, 1), brick size 10, palette on.
ScenarioCalls ==
   {Args(Solid(w, h, Red), 10, <<1, 1>>, TRUE, a) :
       w \in 1 .. MaxSrc, h \in 1 .. MaxSrc, a \in BOOLEAN}

PixelateInputs == ValidCalls \cup InvalidCalls \cup ScenarioCalls

ChannelSamples == {0, 75, 135, 255}

PaletteColors == {LegoPalette[i].rgb : i \in 1 .. Len(LegoPalette)}

\* Matcher inputs: every palette colour, and a lattice of colours holding
\* (135, 0, 75), which is equally far from Dark Red and Bright Purple.
MatchInputs ==
   PaletteColors \cup (ChannelSamples \X ChannelSamples \X ChannelSamples)

NoMatch == [by |-> "none", rgb |-> <<>>]

NoArgs == Args(NoImage, 0, <<0, 0>>, FALSE, FALSE)

NoMemo == [at |-> 0, args |-> NoArgs, ret |-> NoRet]

(***************************************************************************)
(* Spec: one call of a matcher or of lego_pixelate.                        *)
(***************************************************************************)
Init ==
   \/ /\ pc = "call_fast"
      /\ LEGO_COLORS = LegoPalette
      /\ pixel_rgb \in MatchInputs
      /\ matched = NoMatch
      /\ img = NoImage /\ pixel_size = 0 /\ grid_size = <<0, 0>>
      /\ use_lego_palette = FALSE /\ high_accuracy = FALSE /\ ret = NoRet
      /\ original = NoImage /\ width_blocks = 0 /\ height_blocks = 0
      /\ memo = NoMemo /\ calls = 0
   \/ /\ pc = "call_lab"
      /\ LEGO_COLORS = LegoPalette
      /\ pixel_rgb \in LabDomain
      /\ matched = NoMatch
      /\ img = NoImage /\ pixel_size = 0 /\ grid_size = <<0, 0>>
      /\ use_lego_palette = FALSE /\ high_accuracy = FALSE /\ ret = NoRet
      /\ original = NoImage /\ width_blocks = 0 /\ height_blocks = 0
      /\ memo = NoMemo /\ calls = 0
   \/ /\ pc = "call_pixelate"
      /\ LEGO_COLORS = LegoPalette
      /\ pixel_rgb = <<>> /\ matched = NoMatch
      /\ \E a \in PixelateInputs :
            /\ img = a.img
            /\ pixel_size = a.pixel_size
            /\ grid_size = a.grid_size
            /\ use_lego_palette = a.use_lego_palette
            /\ high_accuracy = a.high_accuracy
      /\ ret = NoRet
      /\ original = NoImage /\ width_blocks = 0 /\ height_blocks = 0
      /\ memo = NoMemo /\ calls = 0

\* closest_lego_color(pixel_rgb)
MatchFast ==
   /\ pc = "call_fast"
   /\ matched' = [by |-> "fast", rgb |-> closest_lego_color(LEGO_COLORS, pixel_rgb)]
   /\ LEGO_COLORS' = PaletteAfterCall(LEGO_COLORS)
   /\ pc' = "done"
   /\ UNCHANGED <<pixel_rgb, img, pixel_size, grid_size, use_lego_palette,
                  high_accuracy, ret, original, width_blocks, height_blocks,
                  memo, calls>>

\* closest_lego_color_lab(pixel_rgb)
MatchLab ==
   /\ pc = "call_lab"
   /\ matched' = [by |-> "lab",
                  rgb |-> closest_lego_color_lab(LEGO_COLORS, pixel_rgb)]
   /\ LEGO_COLORS' = PaletteAfterCall(LEGO_COLORS)
   /\ pc' = "done"
   /\ UNCHANGED <<pixel_rgb, img, pixel_size, grid_size, use_lego_palette,
                  high_accuracy, ret, original, width_blocks, height_blocks,
                  memo, calls>>

\* lego_pixelate(img, pixel_size, grid_size, use_lego_palette, high_accuracy)
Pixelate ==
   /\ pc = "call_pixelate"
   /\ ret' = lego_pixelate(LEGO_COLORS, img, pixel_size, grid_size,
                           use_lego_palette, high_accuracy)
   /\ LEGO_COLORS' = PaletteAfterCall(LEGO_COLORS)
   /\ pc' = "done"
   /\ UNCHANGED <<pixel_rgb, matched, img, pixel_size, grid_size,
                  use_lego_palette, high_accuracy, original, width_blocks,
                  height_blocks, memo, calls>>

Next == MatchFast \/ MatchLab \/ Pixelate

Spec == Init /\ [][Next]_vars

(***************************************************************************)
(* SpecUI: one run of the Streamlit script.  The upload is a solid image,  *)
(* the brick size slider is at its minimum, and the script computes        *)
(* height_blocks and calls lego_pixelate.                                  *)
(***************************************************************************)
Uploads ==
   {Solid(w, h, Red) : w \in 1 .. MaxUploadWidth, h \in 1 .. MaxUploadHeight}

InitUI ==
   /\ pc = "uploaded"
   /\ LEGO_COLORS = LegoPalette
   /\ original \in Uploads
   /\ width_blocks \in WidthBlocksMin .. WidthBlocksMin + MaxWidthExtra
   /\ pixel_size = BrickSizeMin
   /\ use_lego_palette \in BOOLEAN
   /\ high_accuracy \in BOOLEAN
   /\ height_blocks = 0
   /\ img = NoImage /\ grid_size = <<0, 0>> /\ ret = NoRet
   /\ pixel_rgb = <<>> /\ matched = NoMatch
   /\ memo = NoMemo /\ calls = 0

\* The script body from aspect_ratio to the lego_pixelate call.
RunScript ==
   /\ pc = "uploaded"
   /\ height_blocks' =
         HeightBlocks(width_blocks, original.height, original.width)
   /\ img' = original
   /\ grid_size' = <<width_blocks, height_blocks'>>
   /\ ret' = lego_pixelate(LEGO_COLORS, original, pixel_size, grid_size',
                           use_lego_palette, high_accuracy)
   /\ LEGO_COLORS' = PaletteAfterCall(LEGO_COLORS)
   /\ pc' = "done"
   /\ UNCHANGED <<pixel_rgb, matched, pixel_size, use_lego_palette,
                  high_accuracy, original, width_blocks, memo, calls>>

NextUI == RunScript

SpecUI == InitUI /\ [][NextUI]_vars

(***************************************************************************)
(* SpecSeq: up to MaxCalls calls of lego_pixelate in one process.  memo    *)
(* remembers one of the calls made so far, with its outcome.               *)
(***************************************************************************)
BrickYellow == LegoPalette[1].rgb

SeqImages == {Solid(1, 1, BrickYellow), Solid(1, 1, Red), Pattern(2, 1, "columns")}

SeqCalls ==
   [img : SeqImages, pixel_size : {1}, grid_size : {<<1, 1>>},
    use_lego_palette : BOOLEAN, high_accuracy : BOOLEAN]

InitSeq ==
   /\ pc = "session"
   /\ LEGO_COLORS = LegoPalette
   /\ calls = 0
   /\ memo = NoMemo
   /\ img = NoImage /\ pixel_size = 0 /\ grid_size = <<0, 0>>
   /\ use_lego_palette = FALSE /\ high_accuracy = FALSE /\ ret = NoRet
   /\ pixel_rgb = <<>> /\ matched = NoMatch
   /\ original = NoImage /\ width_blocks = 0 /\ height_blocks = 0

CurrentArgs == Args(img, pixel_size, grid_size, use_lego_palette, high_accuracy)

\* The next call of the sequence.
SeqCall ==
   /\ pc = "session"
   /\ calls < MaxCalls
   /\ \E a \in SeqCalls :
         /\ img' = a.img
         /\ pixel_size' = a.pixel_size
         /\ grid_size' = a.grid_size
         /\ use_lego_palette' = a.use_lego_palette
         /\ high_accuracy' = a.high_accuracy
         /\ ret' = lego_pixelate(LEGO_COLORS, a.img, a.pixel_size, a.grid_size,
                                 a.use_lego_palette, a.high_accuracy)
         /\ memo' \in {memo, [at |-> calls + 1, args |-> a, ret |-> ret']}
   /\ LEGO_COLORS' = PaletteAfterCall(LEGO_COLORS)
   /\ calls' = calls + 1
   /\ UNCHANGED <<pc, pixel_rgb, matched, original, width_blocks,
                  height_blocks>>

NextSeq == SeqCall

SpecSeq == InitSeq /\ [][NextSeq]_vars

(***************************************************************************)
(* Properties.                                                             *)
(***************************************************************************)
\* A lego_pixelate call has finished (returned or raised).
PixelateDone == pc = "done" /\ img # NoImage

ValidParameters == pixel_size > 0 /\ grid_size[1] > 0 /\ grid_size[2] > 0

Returned == PixelateDone /\ ret.status = "returned"

\* The pixels of the block of grid cell <<x, y>>.
Block(x, y) ==
   {<<x * pixel_size + dx, y * pixel_size + dy>> :
       dx \in 0 .. pixel_size - 1, dy \in 0 .. pixel_size - 1}

Cells == Pixels(grid_size[1], grid_size[2])

\* The sum of squared per-channel differences of two colours.
SquaredDifference(p, q) ==
   (p[1] - q[1]) ^ 2 + (p[2] - q[2]) ^ 2 + (p[3] - q[3]) ^ 2

\* C1: a call with positive pixel_size and grid_size returns an image of
\* width grid_size[0] * pixel_size and height grid_size[1] * pixel_size,
\* whatever the flags.
DimensionInvariant ==
   (PixelateDone /\ ValidParameters) =>
      /\ ret.status = "returned"
      /\ ret.image.width = grid_size[1] * pixel_size
      /\ ret.image.height = grid_size[2] * pixel_size
      /\ DOMAIN ret.image.px
            = Pixels(grid_size[1] * pixel_size, grid_size[2] * pixel_size)

DimensionWitness ==
   /\ Returned
   /\ grid_size = <<2, 1>>
   /\ pixel_size = 2
   /\ ret.image.width = 4
   /\ ret.image.height = 2

\* C2: in the returned image every pixel of a cell's block has the colour
\* of the block's top-left pixel.
FlatnessInvariant ==
   Returned =>
      \A c \in Cells : \A p \in Block(c[1], c[2]) :
         ret.image.px[p] = ret.image.px[<<c[1] * pixel_size, c[2] * pixel_size>>]

\* Two blocks of more than one pixel each, of different colours.
FlatnessWitness ==
   /\ Returned
   /\ pixel_size = 2
   /\ grid_size = <<2, 1>>
   /\ ret.image.px[<<1, 1>>] # ret.image.px[<<2, 0>>]

\* C3: with use_lego_palette every pixel of the returned image is the rgb
\* of a LEGO_COLORS entry, and each matcher returns the rgb of an entry.
PaletteContainment ==
   /\ (Returned /\ use_lego_palette) =>
         \A p \in DOMAIN ret.image.px : ret.image.px[p] \in PaletteColors
   /\ (pc = "done" /\ matched.by # "none") => matched.rgb \in PaletteColors

\* A high-accuracy palette call on an image none of whose downsampled
\* colours is a palette colour.
PaletteWitness ==
   /\ Returned
   /\ use_lego_palette
   /\ high_accuracy
   /\ ret.lab_calls = 4
   /\ pixel_size = 2
   /\ \A p \in DOMAIN ret.small.px : ret.small.px[p] \notin PaletteColors

\* C4: without use_lego_palette each cell's block has the colour of the
\* cell's pixel of the downsampled image, no matcher is invoked, and the
\* output is the one the other value of high_accuracy gives.
Passthrough ==
   (Returned /\ ~use_lego_palette) =>
      /\ ret.small = resize(img, grid_size)
      /\ \A c \in Cells : \A p \in Block(c[1], c[2]) :
            ret.image.px[p] = ret.small.px[c]
      /\ ret.fast_calls = 0
      /\ ret.lab_calls = 0
      /\ ret.image = lego_pixelate(LEGO_COLORS, img, pixel_size, grid_size,
                                   FALSE, ~high_accuracy).image

\* A passthrough call whose downsampled image blends the source colours.
PassthroughWitness ==
   /\ Returned
   /\ ~use_lego_palette
   /\ high_accuracy
   /\ pixel_size = 2
   /\ grid_size = <<1, 1>>
   /\ ret.image.px[<<1, 1>>] = <<128, 0, 0>>

\* C5: a call whose grid width, grid height or brick size is zero or
\* negative is rejected with an error (any raised error counts as the
\* rejection) and returns no image.
RejectsInvalidParameters ==
   (PixelateDone /\ ~ValidParameters) => ret.status # "returned"

\* Nearest integer to num / den (den > 0, num >= 0), halves to the even
\* neighbour as Python's round does.
Round(num, den) ==
   LET q == num \div den
       r == num % den
   IN  IF 2 * r > den \/ (2 * r = den /\ q % 2 = 1) THEN q + 1 ELSE q

\* C6: the grid height the script passes to the renderer is
\* round(width_blocks * H / W) for a W x H upload.
HeightIsRounded ==
   (pc = "done" /\ original # NoImage) =>
      /\ height_blocks
            = Round(width_blocks * original.height, original.width)
      /\ grid_size = <<width_blocks, height_blocks>>

\* C7: closest_lego_color returns the rgb of the first LEGO_COLORS entry
\* whose sum of squared channel differences to the pixel is least.
FastMatchIsFirstMinimum ==
   (pc = "done" /\ matched.by = "fast") =>
      \E i \in 1 .. Len(LEGO_COLORS) :
         /\ matched.rgb = LEGO_COLORS[i].rgb
         /\ \A j \in 1 .. Len(LEGO_COLORS) :
               LET di == SquaredDifference(pixel_rgb, LEGO_COLORS[i].rgb)
                   dj == SquaredDifference(pixel_rgb, LEGO_COLORS[j].rgb)
               IN  dj > di \/ (dj = di /\ j >= i)

\* (135, 0, 75) is at distance 2448 from Dark Red (entry 20) and from Bright
\* Purple (entry 27), and farther from every other entry.
FastMatchTieWitness ==
   /\ pc = "done"
   /\ matched.by = "fast"
   /\ pixel_rgb = <<135, 0, 75>>
   /\ SquaredDifference(pixel_rgb, LEGO_COLORS[20].rgb)
         = SquaredDifference(pixel_rgb, LEGO_COLORS[27].rgb)
   /\ matched.rgb = LEGO_COLORS[20].rgb

\* C8: on the rgb of a LEGO_COLORS entry both matchers return that rgb.
ExactHit ==
   (pc = "done" /\ matched.by # "none" /\ pixel_rgb \in PaletteColors) =>
      matched.rgb = pixel_rgb

\* The Lab matcher on the last palette entry.
ExactHitWitness ==
   /\ pc = "done"
   /\ matched.by = "lab"
   /\ pixel_rgb = LEGO_COLORS[Len(LEGO_COLORS)].rgb
   /\ matched.rgb = pixel_rgb

IsScenario ==
   /\ PixelateDone
   /\ \A p \in DOMAIN img.px : img.px[p] = <<255, 0, 0>>
   /\ grid_size = <<1, 1>>
   /\ pixel_size = 10
   /\ use_lego_palette
   /\ ~high_accuracy

\* C9: a solid (255, 0, 0) image, grid (1, 1), brick size 10, palette on,
\* fast matcher: the result is 10 x 10, every pixel (180, 0, 0), which is
\* "Bright Red", the entry of least squared distance among the 44.
RedScenario ==
   IsScenario =>
      /\ ret.status = "returned"
      /\ ret.image.width = 10
      /\ ret.image.height = 10
      /\ DOMAIN ret.image.px = Pixels(10, 10)
      /\ \A p \in DOMAIN ret.image.px : ret.image.px[p] = <<180, 0, 0>>
      /\ Len(LEGO_COLORS) = 44
      /\ \E i \in 1 .. Len(LEGO_COLORS) :
            /\ LEGO_COLORS[i] = [name |-> "Bright Red", rgb |-> <<180, 0, 0>>]
            /\ \A j \in 1 .. Len(LEGO_COLORS) :
                  SquaredDifference(<<255, 0, 0>>, LEGO_COLORS[j].rgb)
                     >= SquaredDifference(<<255, 0, 0>>, LEGO_COLORS[i].rgb)

RedScenarioWitness ==
   /\ IsScenario
   /\ img.width = 2
   /\ img.height = 2
   /\ ret.status = "returned"
   /\ ret.fast_calls = 1

=============================================================================
